---------------------------- MODULE Spec2Model ----------------------------
(*************************************************************************)
(* A model of the gdrive package: a local mirror of files whose          *)
(* authoritative copies live on Google Drive, an in-memory metadata      *)
(* store (Memory, memory_dao.go), the store / touch operations, the      *)
(* bulk uploader and the size-bounded eviction sweep (shouldRemove).     *)
(*                                                                       *)
(* Paths and remote names are sequences of characters, file contents     *)
(* are sequences of bytes.  Memory.data is modelled as the set of its    *)
(* FileInfo values: its order is only observable through QueryOldest,    *)
(* whose sort is not stable, so every order of equal timestamps is a     *)
(* possible result there.                                                *)
(*************************************************************************)
EXTENDS Integers, Sequences, FiniteSets, TLC

VARIABLES
    local,          \* files under Config.LocalFolderRoot: path -> file
    remote,         \* drive files under parentFolderID
    data,           \* Memory.data
    dao,            \* GDrive.dao: "nil" or "Memory"
    TotalMaxSize,   \* Config.TotalMaxSize
    now,            \* the wall clock read by time.Now()
    ret,            \* the last completed call, its inputs and its result
    pc,             \* UploadAll: per file, where its goroutine stands
    limiter,        \* UploadAll: number of tokens in chanLimit
    wg,             \* UploadAll: the WaitGroup counter
    upl,            \* UploadAll: "idle", "running", "returned", "panic"
    start,          \* Start: its loop, the interval of its timer, g.ctx
    calls           \* StoreFile / TouchFile calls in flight: caller -> frame

vars == <<local, remote, data, dao, TotalMaxSize, now, ret, pc, limiter, wg, upl,
          start, calls>>

-----------------------------------------------------------------------------
(* Bounds of the model.                                                  *)

\* Calls explored from the initial state: every call advances the clock by one.
MaxTime == 5

\* Paths given to the public operations.  Two of them differ only in a
\* separator and so share a remote name.
Paths == { <<"a">>, <<"d", "/", "a">>, <<"d", "#", "a">> }

\* File contents given to StoreFile.
FileBytes == { <<1>>, <<2, 2>> }

\* Values of Config.TotalMaxSize.
Budgets == {0, 2}

-----------------------------------------------------------------------------
(* Values.                                                               *)

NoFile == [exists |-> FALSE, bytes |-> <<>>]

File(b) == [exists |-> TRUE, bytes |-> b]

\* A nil *drive.File.
Nil == [Id |-> <<>>, Name |-> <<>>, Content |-> <<>>]

\* The environment of one call: TRUE where the operating system or the
\* Drive API answers without an error of its own; write says how
\* storeFileToLocal ends, remove which removal of a pass fails.
NoFault == [stat |-> TRUE, list |-> TRUE, list2 |-> TRUE, upload |-> TRUE,
            download |-> TRUE, write |-> "ok", open |-> TRUE, read |-> TRUE,
            remove |-> 0]

-----------------------------------------------------------------------------
(* gdrive.go helpers.                                                    *)

convertToGDrive(path) ==
    [i \in DOMAIN path |-> IF path[i] = "/" THEN "#" ELSE path[i]]

\* os.Stat(localFullPath(p)): "nil", "notexist", or another error.
Stat(l, p, ok) ==
    IF ~ok THEN "other" ELSE IF l[p].exists THEN "nil" ELSE "notexist"

localFileExist(l, p) == Stat(l, p, TRUE) # "notexist"

\* A Files.List whose query leaves the name out: every file of the parent folder.
ListByNameAny(r, name) == r

\* Files.List with the query of getFileInCloud / TouchFile: the files of that name.
ListByName(r, name) == { f \in r : f.Name = name }

\* A getFileInCloud that queries the path as given, without convertToGDrive.
getFileInCloudRaw(r, p, listOK) ==
    IF ~listOK \/ { f \in r : f.Name = p } = {}
    THEN {Nil}
    ELSE { f \in r : f.Name = p }

\* The possible results of getFileInCloud: nil on a failed List or no match,
\* else files.Files[0] (any of the matches: Drive fixes no order).
getFileInCloud(r, p, listOK) ==
    IF ~listOK \/ ListByName(r, convertToGDrive(p)) = {}
    THEN {Nil}
    ELSE ListByName(r, convertToGDrive(p))

\* The id Drive gives a created file: opaque, and unlike every other id.
NewId(r, name) == <<name, Cardinality(ListByName(r, name)) + 1>>

\* An uploadToCloud that creates a drive file whether or not one exists.
uploadToCloudAlwaysCreate(r, p, b, replace, driveFile, uploadOK) ==
    IF driveFile # Nil /\ ~replace
    THEN [res |-> driveFile, err |-> "nil", remote |-> r]
    ELSE IF ~uploadOK
    THEN [res |-> Nil, err |-> "upload", remote |-> r]
    ELSE LET created == [Id |-> NewId(r, convertToGDrive(p)), Name |-> convertToGDrive(p),
                         Content |-> b]
         IN  [res |-> created, err |-> "nil", remote |-> r \cup {created}]

\* An uploadToCloud that reports success without sending anything to Drive.
uploadToCloudNotSent(r, p, b, replace, driveFile, uploadOK) ==
    IF driveFile # Nil /\ ~replace
    THEN [res |-> driveFile, err |-> "nil", remote |-> r]
    ELSE IF ~uploadOK
    THEN [res |-> Nil, err |-> "upload", remote |-> r]
    ELSE [res |-> [Id |-> NewId(r, convertToGDrive(p)), Name |-> convertToGDrive(p),
                   Content |-> b],
          err |-> "nil", remote |-> r]

\* uploadToCloud with driveFile already looked up: [res, err, remote].
uploadToCloud(r, p, b, replace, driveFile, uploadOK) ==
    IF driveFile # Nil /\ ~replace
    THEN [res |-> driveFile, err |-> "nil", remote |-> r]
    ELSE IF ~uploadOK
    THEN [res |-> Nil, err |-> "upload", remote |-> r]
    ELSE IF driveFile = Nil
    THEN LET created == [Id |-> NewId(r, convertToGDrive(p)), Name |-> convertToGDrive(p),
                         Content |-> b]
         IN  [res |-> created, err |-> "nil", remote |-> r \cup {created}]
    ELSE LET updated == [driveFile EXCEPT !.Content = b]
         IN  [res |-> updated, err |-> "nil",
              remote |-> { f \in r : f.Id # driveFile.Id } \cup {updated}]

\* storeFileToLocal: [err, local].  write = "fail": os.MkdirAll fails, or
\* os.WriteFile fails before it has created or truncated the file;
\* write = "partial": os.WriteFile fails after that, with all but the last
\* byte written.
storeFileToLocal(l, p, b, write) ==
    IF write = "fail"
    THEN [err |-> "write", local |-> l]
    ELSE IF write = "partial"
    THEN [err |-> "write", local |-> [l EXCEPT ![p] = File(SubSeq(b, 1, Len(b) - 1))]]
    ELSE [err |-> "nil", local |-> [l EXCEPT ![p] = File(b)]]

-----------------------------------------------------------------------------
(* memory_dao.go.                                                        *)

\* slices.IndexFunc(m.data, Filepath == path) >= 0
HasRecord(d, path) == \E r \in d : r.Filepath = path

RecordOf(d, path) == CHOOSE r \in d : r.Filepath = path

FileInfo(id, t, path, size) ==
    [FileID |-> id, LastAccess |-> t, Filepath |-> path, Size |-> size]

\* An InsertOrUpdate whose update only refreshes LastAccess of the record it finds.
InsertOrUpdateKeepsSize(d, fileInfo, t) ==
    IF HasRecord(d, fileInfo.Filepath)
    THEN (d \ {RecordOf(d, fileInfo.Filepath)})
             \cup {[RecordOf(d, fileInfo.Filepath) EXCEPT !.LastAccess = t]}
    ELSE d \cup {fileInfo}

\* fileInfo arrives with LastAccess read by the caller; an update reads the clock again.
InsertOrUpdate(d, fileInfo, t) ==
    IF HasRecord(d, fileInfo.Filepath)
    THEN (d \ {RecordOf(d, fileInfo.Filepath)}) \cup {[fileInfo EXCEPT !.LastAccess = t]}
    ELSE d \cup {fileInfo}

Touch(d, path, date) ==
    IF HasRecord(d, path)
    THEN (d \ {RecordOf(d, path)}) \cup {[RecordOf(d, path) EXCEPT !.LastAccess = date]}
    ELSE d

\* Memory.Delete: [err, data].
Delete(d, path) ==
    IF ~HasRecord(d, path)
    THEN [err |-> "file not found", data |-> d]
    ELSE [err |-> "nil", data |-> d \ {RecordOf(d, path)}]

RECURSIVE TotalSize(_)
TotalSize(d) ==
    IF d = {} THEN 0
    ELSE LET r == CHOOSE x \in d : TRUE IN r.Size + TotalSize(d \ {r})

\* Every order slices.SortFunc(LastAccess.Before) can leave m.data in.
RECURSIVE SortFunc(_)
SortFunc(d) ==
    IF d = {} THEN { <<>> }
    ELSE UNION { { <<r>> \o s : s \in SortFunc(d \ {r}) } :
                 r \in { x \in d : \A y \in d : x.LastAccess <= y.LastAccess } }

Min(a, b) == IF a < b THEN a ELSE b

\* The possible results of QueryOldest(limit).
QueryOldest(d, limit) ==
    { SubSeq(s, 1, Min(limit, Len(s))) : s \in SortFunc(d) }


-----------------------------------------------------------------------------
(* shouldRemove.                                                         *)

\* Records an eviction pass asks QueryOldest for.
BatchSize == 10

\* A selection loop that stops before the candidate that would cross diff.
RECURSIVE SelectLoopShort(_, _, _, _)
SelectLoopShort(list, i, totalToRemove, diff) ==
    IF i > Len(list)
    THEN [n |-> Len(list), totalToRemove |-> totalToRemove]
    ELSE IF totalToRemove + list[i].Size > diff
    THEN [n |-> i - 1, totalToRemove |-> totalToRemove]
    ELSE SelectLoopShort(list, i + 1, totalToRemove + list[i].Size, diff)

\* A selection loop that stops as soon as the selected size reaches diff.
RECURSIVE SelectLoopGeq(_, _, _, _)
SelectLoopGeq(list, i, totalToRemove, diff) ==
    IF i > Len(list)
    THEN [n |-> Len(list), totalToRemove |-> totalToRemove]
    ELSE IF totalToRemove + list[i].Size >= diff
    THEN [n |-> i, totalToRemove |-> totalToRemove + list[i].Size]
    ELSE SelectLoopGeq(list, i + 1, totalToRemove + list[i].Size, diff)

\* The selection loop over list[i..]: the number of candidates taken and their size.
RECURSIVE SelectLoop(_, _, _, _)
SelectLoop(list, i, totalToRemove, diff) ==
    IF i > Len(list)
    THEN [n |-> Len(list), totalToRemove |-> totalToRemove]
    ELSE IF totalToRemove + list[i].Size > diff
    THEN [n |-> i, totalToRemove |-> totalToRemove + list[i].Size]
    ELSE SelectLoop(list, i + 1, totalToRemove + list[i].Size, diff)

\* A removal loop that also deletes the drive file of every record it removes.
RECURSIVE RemoveLoopRemote(_, _, _, _)
RemoveLoopRemote(toRemove, i, w, removeFault) ==
    IF i > Len(toRemove)
    THEN [err |-> "nil", w |-> w, deleted |-> i - 1]
    ELSE LET del == Delete(w.data, toRemove[i].Filepath)
         IN  IF del.err # "nil"
             THEN [err |-> "delete", w |-> w, deleted |-> i - 1]
             ELSE IF ~w.local[toRemove[i].Filepath].exists \/ removeFault = i
             THEN [err |-> "remove", w |-> [w EXCEPT !.data = del.data], deleted |-> i]
             ELSE RemoveLoopRemote(toRemove, i + 1,
                     [w EXCEPT !.data = del.data,
                               !.local[toRemove[i].Filepath] = NoFile,
                               !.remote = { f \in w.remote : f.Id # toRemove[i].FileID }],
                     removeFault)

\* A removal loop that puts the record back when os.Remove fails.
RECURSIVE RemoveLoopRestores(_, _, _, _)
RemoveLoopRestores(toRemove, i, w, removeFault) ==
    IF i > Len(toRemove)
    THEN [err |-> "nil", w |-> w, deleted |-> i - 1]
    ELSE LET del == Delete(w.data, toRemove[i].Filepath)
         IN  IF del.err # "nil"
             THEN [err |-> "delete", w |-> w, deleted |-> i - 1]
             ELSE IF ~w.local[toRemove[i].Filepath].exists \/ removeFault = i
             THEN [err |-> "remove", w |-> w, deleted |-> i]
             ELSE RemoveLoopRestores(toRemove, i + 1,
                                     [w EXCEPT !.data = del.data,
                                               !.local[toRemove[i].Filepath] = NoFile],
                                     removeFault)

\* A removal loop that removes the local file before the record.
RECURSIVE RemoveLoopFileFirst(_, _, _, _)
RemoveLoopFileFirst(toRemove, i, w, removeFault) ==
    IF i > Len(toRemove)
    THEN [err |-> "nil", w |-> w, deleted |-> i - 1]
    ELSE IF ~w.local[toRemove[i].Filepath].exists \/ removeFault = i
    THEN [err |-> "remove", w |-> w, deleted |-> i]
    ELSE LET removed == [w EXCEPT !.local[toRemove[i].Filepath] = NoFile]
             del == Delete(w.data, toRemove[i].Filepath)
         IN  IF del.err # "nil" \/ removeFault = 0 - i
             THEN [err |-> "delete", w |-> removed, deleted |-> i - 1]
             ELSE RemoveLoopFileFirst(toRemove, i + 1, [removed EXCEPT !.data = del.data],
                                      removeFault)

\* The removal loop over toRemove[i..] acting on the stores w (the metadata
\* records, the local files, the remote objects): dao.Delete, then os.Remove,
\* stopping at the first error.  removeFault = i > 0: the os.Remove of
\* candidate i fails although the file is there; removeFault = -i: the record
\* of candidate i has been deleted by another caller of the dao since
\* QueryOldest, and dao.Delete fails; 0: neither.
RECURSIVE RemoveLoop(_, _, _, _)
RemoveLoop(toRemove, i, w, removeFault) ==
    IF i > Len(toRemove)
    THEN [err |-> "nil", w |-> w, deleted |-> i - 1]
    ELSE LET gone == IF removeFault = 0 - i
                     THEN w.data \ { r \in w.data : r.Filepath = toRemove[i].Filepath }
                     ELSE w.data
             del == Delete(gone, toRemove[i].Filepath)
         IN  IF del.err # "nil"
             THEN [err |-> "delete", w |-> [w EXCEPT !.data = gone], deleted |-> i - 1]
             ELSE IF ~w.local[toRemove[i].Filepath].exists \/ removeFault = i
             THEN [err |-> "remove", w |-> [w EXCEPT !.data = del.data], deleted |-> i]
             ELSE RemoveLoop(toRemove, i + 1,
                             [w EXCEPT !.data = del.data,
                                       !.local[toRemove[i].Filepath] = NoFile],
                             removeFault)

\* A shouldRemove that also asks for the next pass after a second when the
\* records selected added up to the excess exactly.
shouldRemoveGeq(w, max, list, removeFault) ==
    LET total == TotalSize(w.data)
        diff  == total - max
        sel   == SelectLoop(list, 1, 0, diff)
        rm    == RemoveLoop(SubSeq(list, 1, sel.n), 1, w, removeFault)
    IN  IF total <= max
        THEN [result |-> FALSE, err |-> "nil", w |-> w,
              total |-> total, list |-> <<>>, selected |-> 0, deleted |-> 0]
        ELSE [result |-> rm.err = "nil" /\ diff >= sel.totalToRemove,
              err |-> rm.err, w |-> rm.w,
              total |-> total, list |-> list, selected |-> sel.n, deleted |-> rm.deleted]

\* A shouldRemove that evicts as soon as the total has reached TotalMaxSize.
shouldRemoveAtBudget(w, max, list, removeFault) ==
    LET total == TotalSize(w.data)
        diff  == total - max
        sel   == SelectLoop(list, 1, 0, diff)
        rm    == RemoveLoop(SubSeq(list, 1, sel.n), 1, w, removeFault)
    IN  IF total < max
        THEN [result |-> FALSE, err |-> "nil", w |-> w,
              total |-> total, list |-> <<>>, selected |-> 0, deleted |-> 0]
        ELSE [result |-> rm.err = "nil" /\ diff > sel.totalToRemove,
              err |-> rm.err, w |-> rm.w,
              total |-> total, list |-> list, selected |-> sel.n, deleted |-> rm.deleted]

\* One call of shouldRemove on the stores w, with the outcome of QueryOldest given.
shouldRemove(w, max, list, removeFault) ==
    LET total == TotalSize(w.data)
        diff  == total - max
        sel   == SelectLoop(list, 1, 0, diff)
        rm    == RemoveLoop(SubSeq(list, 1, sel.n), 1, w, removeFault)
    IN  IF total <= max
        THEN [result |-> FALSE, err |-> "nil", w |-> w,
              total |-> total, list |-> <<>>, selected |-> 0, deleted |-> 0]
        ELSE [result |-> rm.err = "nil" /\ diff > sel.totalToRemove,
              err |-> rm.err, w |-> rm.w,
              total |-> total, list |-> list, selected |-> sel.n, deleted |-> rm.deleted]

-----------------------------------------------------------------------------
(* The public operations, one call each.                                 *)

UploadIdle == UNCHANGED <<pc, limiter, wg, upl>>

Config == UNCHANGED <<dao, TotalMaxSize>>

StoreRet(p, b, replace, err) ==
    [op |-> "StoreFile", path |-> p, bytes |-> b, replace |-> replace, err |-> err,
     fresh |-> ~local[p].exists /\ ListByName(remote, convertToGDrive(p)) = {}]

StoreFile(p, b, replace, env) ==
    /\ upl = "idle"
    /\ now < MaxTime
    /\ now' = now + 1
    /\ Config
    /\ UploadIdle
    /\ UNCHANGED <<start, calls>>
    /\ LET stat == Stat(local, p, env.stat)
       IN  IF stat # "nil" /\ stat # "notexist" /\ ~replace
           THEN /\ ret' = StoreRet(p, b, replace, "ErrFileExist")
                /\ UNCHANGED <<local, remote, data>>
           ELSE \E driveFile \in getFileInCloud(remote, p, env.list) :
                IF driveFile # Nil /\ ~replace
                THEN /\ ret' = StoreRet(p, b, replace, "ErrFileExist")
                     /\ UNCHANGED <<local, remote, data>>
                ELSE \E driveFile2 \in getFileInCloud(remote, p, env.list2) :
                     LET up == uploadToCloud(remote, p, b, replace, driveFile2, env.upload)
                         st == storeFileToLocal(local, p, b, env.write)
                     IN  IF up.err # "nil"
                         THEN /\ ret' = StoreRet(p, b, replace, up.err)
                              /\ UNCHANGED <<local, remote, data>>
                         ELSE IF st.err # "nil"
                         THEN /\ ret' = StoreRet(p, b, replace, st.err)
                              /\ remote' = up.remote
                              /\ local' = st.local
                              /\ UNCHANGED data
                         ELSE /\ ret' = StoreRet(p, b, replace, "nil")
                              /\ remote' = up.remote
                              /\ local' = st.local
                              /\ data' = IF dao # "nil"
                                         THEN InsertOrUpdate(data,
                                                  FileInfo(up.res.Id, now', p, Len(b)), now')
                                         ELSE data

TouchRet(p, err, net) ==
    [op |-> "TouchFile", path |-> p, err |-> err, net |-> net]

TouchFile(p, env) ==
    /\ upl = "idle"
    /\ now < MaxTime
    /\ now' = now + 1
    /\ Config
    /\ UploadIdle
    /\ UNCHANGED <<start, calls>>
    /\ IF Stat(local, p, env.stat) = "nil"
       THEN /\ data' = IF dao # "nil" THEN Touch(data, p, now') ELSE data
            /\ ret' = TouchRet(p, "nil", FALSE)
            /\ UNCHANGED <<local, remote>>
       ELSE IF ~env.list
       THEN /\ ret' = TouchRet(p, "list", TRUE)
            /\ UNCHANGED <<local, remote, data>>
       ELSE IF ListByName(remote, convertToGDrive(p)) = {}
       THEN /\ ret' = TouchRet(p, "file not available on google drive", TRUE)
            /\ UNCHANGED <<local, remote, data>>
       ELSE \E f \in ListByName(remote, convertToGDrive(p)) :
            LET st == storeFileToLocal(local, p, f.Content, env.write)
            IN  IF ~env.download
                THEN /\ ret' = TouchRet(p, "download", TRUE)
                     /\ UNCHANGED <<local, remote, data>>
                ELSE IF st.err # "nil"
                THEN /\ ret' = TouchRet(p, st.err, TRUE)
                     /\ local' = st.local
                     /\ UNCHANGED <<remote, data>>
                ELSE /\ ret' = TouchRet(p, "nil", TRUE)
                     /\ local' = st.local
                     /\ data' = IF dao # "nil"
                                THEN InsertOrUpdate(data,
                                         FileInfo(f.Id, now', p, Len(f.Content)), now')
                                ELSE data
                     /\ UNCHANGED remote

\* Start before its first tick: time.NewTimer(time.Minute), and g.ctx live.
StartInit == [pc |-> "select", interval |-> "minute", ctx |-> "live", after |-> 0]

\* A loop that stays in its select after a pass whatever g.ctx says.
ResetOnly(st, result) ==
    [st EXCEPT !.interval = IF result THEN "second" ELSE "minute",
               !.after = IF st.ctx = "done" THEN @ + 1 ELSE @]

\* case <-t.C of Start once shouldRemove has returned: t.Reset, and the
\* select the loop comes back to.  The timer, set a second or a minute
\* ahead, has not fired by then: with g.ctx cancelled the select takes
\* <-g.ctx.Done() and Start returns, otherwise it waits.  after counts the
\* passes run since g.ctx was cancelled.
Reset(st, result) ==
    [st EXCEPT !.interval = IF result THEN "second" ELSE "minute",
               !.after = IF st.ctx = "done" THEN @ + 1 ELSE @,
               !.pc = IF st.ctx = "done" THEN "returned" ELSE "select"]

\* One timer tick of Start: t.C fires, select takes it, a whole eviction
\* pass runs and the timer is reset.
ShouldRemove(env) ==
    /\ upl = "idle"
    /\ start.pc = "select"
    /\ now < MaxTime
    /\ now' = now + 1
    /\ Config
    /\ UploadIdle
    /\ UNCHANGED calls
    /\ IF dao = "nil"
       THEN /\ ret' = [op |-> "shouldRemove", result |-> FALSE, err |-> "nil",
                       total |-> 0, n |-> 0, list |-> <<>>, selected |-> 0, deleted |-> 0]
            /\ UNCHANGED <<local, data, remote>>
       ELSE \E list \in QueryOldest(data, BatchSize) :
            LET out == shouldRemove([data |-> data, local |-> local, remote |-> remote],
                                    TotalMaxSize, list, env.remove)
            IN  /\ ret' = [op |-> "shouldRemove", result |-> out.result, err |-> out.err,
                           total |-> out.total, n |-> Cardinality(data), list |-> out.list,
                           selected |-> out.selected, deleted |-> out.deleted]
                /\ data' = out.w.data
                /\ local' = out.w.local
                /\ remote' = out.w.remote
    /\ start' = Reset(start, ret'.result)

\* Memory.Delete called by the owner of the dao.
DaoDelete(p) ==
    /\ upl = "idle"
    /\ dao # "nil"
    /\ now < MaxTime
    /\ now' = now + 1
    /\ Config
    /\ UploadIdle
    /\ UNCHANGED <<start, calls>>
    /\ data' = Delete(data, p).data
    /\ ret' = [op |-> "Delete", path |-> p, err |-> Delete(data, p).err]
    /\ UNCHANGED <<local, remote>>

\* storeFileToLocal called on its own: a file put into the local tree.
StoreFileToLocal(p, b) ==
    /\ upl = "idle"
    /\ now < MaxTime
    /\ now' = now + 1
    /\ Config
    /\ UploadIdle
    /\ UNCHANGED <<start, calls>>
    /\ local' = storeFileToLocal(local, p, b, "ok").local
    /\ ret' = [op |-> "storeFileToLocal", path |-> p, bytes |-> b, err |-> "nil"]
    /\ UNCHANGED <<remote, data>>

-----------------------------------------------------------------------------
(* The mirror driven by one caller, with an environment that does not fail. *)

Init ==
    /\ local = [p \in Paths |-> NoFile]
    /\ remote = {}
    /\ data = {}
    /\ dao = "Memory"
    /\ TotalMaxSize \in Budgets
    /\ now = 0
    /\ ret = [op |-> "New", err |-> "nil"]
    /\ pc = <<>>
    /\ limiter = 0
    /\ wg = 0
    /\ upl = "idle"
    /\ start = StartInit
    /\ calls = <<>>

Next ==
    \/ \E p \in Paths, b \in FileBytes, replace \in BOOLEAN : StoreFile(p, b, replace, NoFault)
    \/ \E p \in Paths : TouchFile(p, NoFault)
    \/ ShouldRemove(NoFault)
    \/ \E p \in Paths : DaoDelete(p)
    \/ \E p \in Paths, b \in FileBytes : StoreFileToLocal(p, b)

Spec == Init /\ [][Next]_vars

-----------------------------------------------------------------------------
(* StoreFile calls in which the write to Drive or the local write fails. *)

StoreFaults ==
    { [NoFault EXCEPT !.upload = u, !.write = w] :
        u \in BOOLEAN, w \in {"ok", "fail", "partial"} }

\* StoreFile calls in a row.
MaxStores == 3

NextStoreFault ==
    /\ now < MaxStores
    /\ \E p \in Paths, b \in FileBytes, replace \in BOOLEAN, env \in StoreFaults :
           StoreFile(p, b, replace, env)

SpecStoreFault == Init /\ [][NextStoreFault]_vars

-----------------------------------------------------------------------------
(* Eviction passes over a metadata store of up to MaxRecs records.       *)

\* Records in the metadata store when the passes start.
MaxRecs == 11

Names == <<"a", "b", "c", "e", "f", "g", "h", "i", "j", "k", "l", "m", "n", "o", "p", "q">>

FilePath(i) == <<"d", "/", Names[i]>>

SweepBudgets == {-1, 0, 1, 6}

\* LastAccess of the i-th of n records: one clock reading apart, the two
\* oldest at the same reading when tie.
StoredAt(i, n, tie) == IF tie /\ i = 1 /\ n > 1 THEN 2 - n ELSE i - n

\* The state after n successful StoreFile calls on n paths, stored oldest
\* first, for every n up to max.
InitRecs(max) ==
    \E n \in 0..max, tie \in BOOLEAN :
    \E bytes \in [1..n -> FileBytes] :
        /\ local = [p \in { FilePath(i) : i \in 1..n } |->
                        File(bytes[CHOOSE i \in 1..n : FilePath(i) = p])]
        /\ remote = { [Id |-> NewId({}, convertToGDrive(FilePath(i))),
                        Name |-> convertToGDrive(FilePath(i)), Content |-> bytes[i]] :
                      i \in 1..n }
        /\ data = { FileInfo(NewId({}, convertToGDrive(FilePath(i))), StoredAt(i, n, tie),
                             FilePath(i), Len(bytes[i])) : i \in 1..n }
        /\ dao = "Memory"
        /\ TotalMaxSize \in SweepBudgets
        /\ now = 0
        /\ ret = [op |-> "New", err |-> "nil"]
        /\ pc = <<>>
        /\ limiter = 0
        /\ wg = 0
        /\ upl = "idle"
        /\ start = StartInit
        /\ calls = <<>>

InitSweep == InitRecs(MaxRecs)

NextSweep == ShouldRemove(NoFault)

SpecSweep == InitSweep /\ [][NextSweep]_vars

-----------------------------------------------------------------------------
(* UploadAll: one goroutine per file, the limiter and the WaitGroup.  A  *)
(* goroutine takes a slot (limiter <- struct{}{}), then runs its body    *)
(* and its deferred wg.Done() and <-limiter.                             *)

\* Capacity of chanLimit.
LimiterCap == 10

\* Files in the local tree UploadAll walks.
MaxFiles == 11

\* The i-th of the n files filepath.Walk visits: the files of directory d,
\* then a file of the root whose name maps to the remote name of the first.
UploadPath(i, n) ==
    IF i = n /\ n > 1 THEN <<"d", "#", Names[1]>> ELSE FilePath(i)

UploadBytes(i) == IF i % 2 = 1 THEN <<2, 2>> ELSE <<1>>

NFiles == Cardinality(DOMAIN local)

\* Goroutines that all read one path variable shared with the walk, which
\* holds the last file by the time they run.
TaskPathShared(i, n) == UploadPath(n, n)

\* The path the goroutine started for file i works on: path is a parameter
\* of the walk function, a variable of its own at every call, so every
\* closure holds the path of its own file.
TaskPath(i, n) == UploadPath(i, n)

\* What io.ReadAll hands back with an error: the bytes read until then.
ReadAll(b, readOK) ==
    IF readOK THEN {b} ELSE { SubSeq(b, 1, k) : k \in 0..(Len(b) - 1) }

\* UploadAll up to wg.Wait(): chanLimit and wg are made, and filepath.Walk
\* calls wg.Add(1) and starts a goroutine for every regular file.  The walk
\* never blocks and shares nothing but wg with the goroutines, which are
\* taken to start running once it has returned.
UploadAllCall ==
    /\ upl = "idle"
    /\ upl' = "running"
    /\ pc' = [i \in 1..NFiles |-> "blocked"]
    /\ limiter' = 0
    /\ wg' = NFiles
    /\ ret' = [op |-> "UploadAll", err |-> "running"]
    /\ UNCHANGED <<local, remote, data, dao, TotalMaxSize, now, start, calls>>

\* A send on a channel that never fills up.
AcquireNoLimit(i) ==
    /\ upl = "running"
    /\ pc[i] = "blocked"
    /\ limiter' = limiter + 1
    /\ pc' = [pc EXCEPT ![i] = "running"]
    /\ UNCHANGED <<local, remote, data, dao, TotalMaxSize, now, ret, wg, upl,
                   start, calls>>

\* limiter <- struct{}{}
Acquire(i) ==
    /\ upl = "running"
    /\ pc[i] = "blocked"
    /\ limiter < LimiterCap
    /\ limiter' = limiter + 1
    /\ pc' = [pc EXCEPT ![i] = "running"]
    /\ UNCHANGED <<local, remote, data, dao, TotalMaxSize, now, ret, wg, upl,
                   start, calls>>

\* The body of the goroutine of file i, from filepath.Rel to its end.
Body(i, env) ==
    /\ UNCHANGED <<local, dao, TotalMaxSize, now, ret, start, calls>>
    /\ LET rel == TaskPath(i, NFiles)
       IN  IF ~env.open
           THEN /\ pc' = [pc EXCEPT ![i] = "openfail"]
                /\ UNCHANGED <<remote, data, upl>>
           ELSE \E b \in ReadAll(local[rel].bytes, env.read) :
                \E driveFile \in getFileInCloud(remote, rel, env.list) :
                LET up == uploadToCloud(remote, rel, b, FALSE, driveFile, env.upload)
                IN  /\ remote' = up.remote
                    /\ IF dao # "nil" /\ up.res = Nil
                       THEN \* res.Id on a nil res: the goroutine panics, the process dies
                            /\ pc' = [pc EXCEPT ![i] = "panic"]
                            /\ upl' = "panic"
                            /\ UNCHANGED data
                       ELSE /\ pc' = [pc EXCEPT ![i] =
                                        IF ~env.read THEN "readfail"
                                        ELSE IF up.err # "nil" THEN "uploadfail"
                                        ELSE "done"]
                            /\ data' = IF dao # "nil"
                                       THEN InsertOrUpdate(data,
                                                FileInfo(up.res.Id, now, rel, Len(b)), now)
                                       ELSE data
                            /\ UNCHANGED upl

\* The body of the goroutine of file i and its deferred function.
RunTask(i, env) ==
    /\ upl = "running"
    /\ pc[i] = "running"
    /\ wg' = wg - 1
    /\ limiter' = limiter - 1
    /\ Body(i, env)

\* A wg.Wait() that does not wait.
ReturnNoWait ==
    /\ upl = "running"
    /\ upl' = "returned"
    /\ ret' = [op |-> "UploadAll", err |-> "nil"]
    /\ UNCHANGED <<local, remote, data, dao, TotalMaxSize, now, pc, limiter, wg,
                   start, calls>>

\* wg.Wait() returns, and UploadAll with it.
Return ==
    /\ upl = "running"
    /\ wg = 0
    /\ upl' = "returned"
    /\ ret' = [op |-> "UploadAll", err |-> "nil"]
    /\ UNCHANGED <<local, remote, data, dao, TotalMaxSize, now, pc, limiter, wg,
                   start, calls>>

\* A local tree of n files, nothing tracked yet; the second file already
\* has a remote object, of another content.
InitTree(n) ==
    /\ local = [p \in { UploadPath(i, n) : i \in 1..n } |->
                    File(UploadBytes(CHOOSE i \in 1..n : UploadPath(i, n) = p))]
    /\ remote = { [Id |-> NewId({}, convertToGDrive(UploadPath(2, n))),
                    Name |-> convertToGDrive(UploadPath(2, n)), Content |-> <<3>>] }
    /\ data = {}
    /\ dao = "Memory"
    /\ TotalMaxSize = 0
    /\ now = 0
    /\ ret = [op |-> "New", err |-> "nil"]
    /\ pc = <<>>
    /\ limiter = 0
    /\ wg = 0
    /\ upl = "idle"
    /\ start = StartInit
    /\ calls = <<>>

InitUpload == InitTree(MaxFiles)

NextUpload ==
    \/ UploadAllCall
    \/ \E i \in 1..NFiles : Acquire(i)
    \/ \E i \in 1..NFiles : RunTask(i, NoFault)
    \/ Return

SpecUpload == InitUpload /\ [][NextUpload]_vars

----------------------------------------------------------------------------------------------------------------------------------------
(* UploadAll over a small tree with os.Open, io.ReadAll, Files.List and  *)
(* Files.Create each failing or not, per goroutine.                      *)

\* Files in the tree when the steps of a goroutine may fail.
FaultFiles == 3

UploadFaults ==
    { [NoFault EXCEPT !.open = o, !.read = r, !.list = l, !.upload = u] :
        o \in BOOLEAN, r \in BOOLEAN, l \in BOOLEAN, u \in BOOLEAN }

InitUploadFault == InitTree(FaultFiles)

NextUploadFault ==
    \/ UploadAllCall
    \/ \E i \in 1..NFiles : Acquire(i)
    \/ \E i \in 1..NFiles, env \in UploadFaults : RunTask(i, env)
    \/ Return

SpecUploadFault == InitUploadFault /\ [][NextUploadFault]_vars

-----------------------------------------------------------------------------
(* Eviction passes in which a dao.Delete or an os.Remove can fail.       *)

\* Records in the metadata store when the passes start.
FaultRecs == 4

\* The candidate whose os.Remove (i) or dao.Delete (-i) fails; 0: none.
RemoveFaults == (0 - FaultRecs)..FaultRecs

InitSweepFault == InitRecs(FaultRecs)

NextSweepFault == \E f \in RemoveFaults : ShouldRemove([NoFault EXCEPT !.remove = f])

SpecSweepFault == InitSweepFault /\ [][NextSweepFault]_vars

-----------------------------------------------------------------------------
(* Start ticking for as long as the clock runs over a store that nothing *)
(* else writes to, with some local files already gone and an os.Remove   *)
(* that may fail.                                                        *)

\* The state after n successful StoreFile calls on n paths, for every n up
\* to max, with the local files of some of them removed since.
InitMissing(max) ==
    \E n \in 0..max, tie \in BOOLEAN :
    \E bytes \in [1..n -> FileBytes], missing \in SUBSET (1..n) :
        /\ local = [p \in { FilePath(i) : i \in 1..n } |->
                        LET i == CHOOSE k \in 1..n : FilePath(k) = p
                        IN  IF i \in missing THEN NoFile ELSE File(bytes[i])]
        /\ remote = { [Id |-> NewId({}, convertToGDrive(FilePath(i))),
                        Name |-> convertToGDrive(FilePath(i)), Content |-> bytes[i]] :
                      i \in 1..n }
        /\ data = { FileInfo(NewId({}, convertToGDrive(FilePath(i))), StoredAt(i, n, tie),
                             FilePath(i), Len(bytes[i])) : i \in 1..n }
        /\ dao = "Memory"
        /\ TotalMaxSize \in SweepBudgets
        /\ now = 0
        /\ ret = [op |-> "New", err |-> "nil"]
        /\ pc = <<>>
        /\ limiter = 0
        /\ wg = 0
        /\ upl = "idle"
        /\ start = StartInit
        /\ calls = <<>>

InitSweepLive == InitMissing(FaultRecs)

NextSweepLive == \E f \in 0..FaultRecs : ShouldRemove([NoFault EXCEPT !.remove = f])

\* case <-t.C: the timer of Start fires and the clock moves on; every pass
\* is such a step.
Tick == upl = "idle" /\ start.pc = "select" /\ now < MaxTime /\ now' = now + 1

\* The timer fires again after every Reset while g.ctx is live.
SpecSweepLive == InitSweepLive /\ [][NextSweepLive]_vars /\ WF_now(Tick)

-----------------------------------------------------------------------------
(* UploadAll over a tree of more files than the limiter has slots, with  *)
(* the goroutine of the first file failing at os.Open or at Files.Create.*)

LimitFaults == {NoFault, [NoFault EXCEPT !.open = FALSE], [NoFault EXCEPT !.upload = FALSE]}

NextUploadLimit ==
    \/ UploadAllCall
    \/ \E i \in 1..NFiles : Acquire(i)
    \/ \E i \in 1..NFiles :
           \E env \in (IF i = 1 THEN LimitFaults ELSE {NoFault}) : RunTask(i, env)
    \/ Return

SpecUploadLimit == InitUpload /\ [][NextUploadLimit]_vars

-----------------------------------------------------------------------------
(* Start from its first select to its return: passes that can fail, and  *)
(* the cancellation of g.ctx by its owner.                               *)

\* The owner of the context given to New cancels it.
Cancel ==
    /\ start.ctx = "live"
    /\ start' = [start EXCEPT !.ctx = "done"]
    /\ UNCHANGED <<local, remote, data, dao, TotalMaxSize, now, ret, pc, limiter, wg, upl,
                   calls>>

\* case <-g.ctx.Done(): return
Stop ==
    /\ start.pc = "select"
    /\ start.ctx = "done"
    /\ start' = [start EXCEPT !.pc = "returned"]
    /\ UNCHANGED <<local, remote, data, dao, TotalMaxSize, now, ret, pc, limiter, wg, upl,
                   calls>>

InitStart == InitRecs(FaultRecs)

NextStart ==
    \/ \E f \in RemoveFaults : ShouldRemove([NoFault EXCEPT !.remove = f])
    \/ Cancel
    \/ Stop

\* A select with <-g.ctx.Done() ready does not wait for ever: the goroutine
\* of Start is scheduled and takes a ready case.
SpecStart == InitStart /\ [][NextStart]_vars /\ WF_vars(Stop)

-----------------------------------------------------------------------------
(* UploadAll with the deferred function of its goroutines in two steps:  *)
(* wg.Done() first, <-limiter after it, so that wg.Wait() can return in  *)
(* between.  The goroutines are scheduled fairly.                        *)

\* The goroutine of file i from its send on limiter to the wg.Done() of its
\* deferred function: it runs once a slot is free and then does not block.
GoFunc(i, env) ==
    /\ upl = "running"
    /\ pc[i] = "blocked"
    /\ limiter < LimiterCap
    /\ limiter' = limiter + 1
    /\ wg' = wg - 1
    /\ Body(i, env)

\* <-limiter, the last statement of a goroutine that has called wg.Done().
Receive ==
    /\ upl \in {"running", "returned"}
    /\ limiter > 0
    /\ limiter' = limiter - 1
    /\ UNCHANGED <<local, remote, data, dao, TotalMaxSize, now, ret, pc, wg, upl,
                   start, calls>>

NextUploadWait ==
    \/ UploadAllCall
    \/ \E i \in 1..NFiles : GoFunc(i, NoFault)
    \/ Receive
    \/ Return

\* The Go scheduler does not stop while a goroutine can run: as long as the
\* caller of UploadAll or one of its goroutines has a step, a step is taken.
SpecUploadWait == InitUpload /\ [][NextUploadWait]_vars /\ WF_vars(NextUploadWait)

-----------------------------------------------------------------------------
(* StoreFile, TouchFile and the body of an UploadAll goroutine statement *)
(* by statement, run by callers that interleave: one step for each call  *)
(* to the operating system, to Drive or to the dao.                      *)

\* Goroutines that call into the package.
Callers == {1, 2}

\* Calls begun in all.
MaxCalls == 2

\* The frame of a caller that is in no call.
Idle == [op |-> "idle", pc |-> "idle", path |-> <<>>, bytes |-> <<>>, replace |-> FALSE,
         driveFile |-> Nil, res |-> Nil]

Frame(op, at, p, b, replace) ==
    [op |-> op, pc |-> at, path |-> p, bytes |-> b, replace |-> replace,
     driveFile |-> Nil, res |-> Nil]

\* Caller c begins a call.
Call(c, frame) ==
    /\ upl = "idle"
    /\ calls[c].op = "idle"
    /\ now < MaxCalls
    /\ now' = now + 1
    /\ calls' = [calls EXCEPT ![c] = frame]
    /\ UNCHANGED <<local, remote, data, dao, TotalMaxSize, ret, pc, limiter, wg, upl, start>>

CallStoreFile(c, p, b, replace) ==
    /\ p \in Paths
    /\ Call(c, Frame("StoreFile", "stat", p, b, replace))

CallTouchFile(c, p) ==
    /\ p \in Paths
    /\ Call(c, Frame("TouchFile", "stat", p, <<>>, FALSE))

\* A goroutine of UploadAll starts on a file of the tree.
CallUploadTask(c, p) ==
    /\ local[p].exists
    /\ Call(c, Frame("UploadTask", "read", p, <<>>, FALSE))

\* Caller c moves on in its call.
Goto(c, pc2, frame) ==
    /\ calls' = [calls EXCEPT ![c] = [frame EXCEPT !.pc = pc2]]
    /\ UNCHANGED ret

\* The call of caller c returns err.
Returns(c, err) ==
    /\ calls' = [calls EXCEPT ![c] = Idle]
    /\ ret' = [op |-> calls[c].op, path |-> calls[c].path, bytes |-> calls[c].bytes,
               replace |-> calls[c].replace, err |-> err, caller |-> c]

Rest == UNCHANGED <<dao, TotalMaxSize, now, pc, limiter, wg, upl, start>>

\* StoreFile: os.Stat and the check on its error.
StoreStat(c, env) ==
    /\ calls[c].op = "StoreFile" /\ calls[c].pc = "stat"
    /\ Rest
    /\ UNCHANGED <<local, remote, data>>
    /\ LET stat == Stat(local, calls[c].path, env.stat)
       IN  IF stat # "nil" /\ stat # "notexist" /\ ~calls[c].replace
           THEN Returns(c, "ErrFileExist")
           ELSE Goto(c, "find", calls[c])

\* StoreFile: getFileInCloud and the check on its result.
StoreFind(c, env) ==
    /\ calls[c].op = "StoreFile" /\ calls[c].pc = "find"
    /\ Rest
    /\ UNCHANGED <<local, remote, data>>
    /\ \E driveFile \in getFileInCloud(remote, calls[c].path, env.list) :
           IF driveFile # Nil /\ ~calls[c].replace
           THEN Returns(c, "ErrFileExist")
           ELSE Goto(c, "find2", calls[c])

\* uploadToCloud: its own getFileInCloud.
UploadFind(c, env) ==
    /\ calls[c].op \in {"StoreFile", "UploadTask"} /\ calls[c].pc = "find2"
    /\ Rest
    /\ UNCHANGED <<local, remote, data>>
    /\ \E driveFile \in getFileInCloud(remote, calls[c].path, env.list2) :
           Goto(c, "upload", [calls[c] EXCEPT !.driveFile = driveFile])

\* UploadDo as it would be if the call went on to the local write with a
\* drive file that was never sent.
UploadDoNotSent(c, env) ==
    /\ calls[c].op \in {"StoreFile", "UploadTask"} /\ calls[c].pc = "upload"
    /\ UNCHANGED <<local, remote, data, dao, TotalMaxSize, now, pc, limiter, wg, upl, start>>
    /\ Goto(c, IF calls[c].op = "StoreFile" THEN "write" ELSE "upsert",
            [calls[c] EXCEPT !.res = [Id |-> NewId(remote, convertToGDrive(calls[c].path)),
                                      Name |-> convertToGDrive(calls[c].path),
                                      Content |-> calls[c].bytes]])

\* uploadToCloud: the return of the drive file found, Files.Create or
\* Files.Update.  A goroutine of UploadAll goes on after an error, to res.Id.
UploadDo(c, env) ==
    /\ calls[c].op \in {"StoreFile", "UploadTask"} /\ calls[c].pc = "upload"
    /\ UNCHANGED <<local, data, dao, TotalMaxSize, now, pc, limiter, wg, start>>
    /\ LET up == uploadToCloud(remote, calls[c].path, calls[c].bytes, calls[c].replace,
                               calls[c].driveFile, env.upload)
       IN  /\ remote' = up.remote
           /\ IF up.err = "nil"
              THEN /\ Goto(c, IF calls[c].op = "StoreFile" THEN "write" ELSE "upsert",
                           [calls[c] EXCEPT !.res = up.res])
                   /\ UNCHANGED upl
              ELSE IF calls[c].op = "StoreFile" \/ dao = "nil"
              THEN /\ Returns(c, up.err)
                   /\ UNCHANGED upl
              ELSE /\ Returns(c, "panic")
                   /\ upl' = "panic"

\* StoreFile and TouchFile: storeFileToLocal.
WriteLocal(c, env) ==
    /\ calls[c].op \in {"StoreFile", "TouchFile"} /\ calls[c].pc = "write"
    /\ Rest
    /\ UNCHANGED <<remote, data>>
    /\ LET st == storeFileToLocal(local, calls[c].path, calls[c].bytes, env.write)
       IN  IF st.err # "nil"
           THEN /\ Returns(c, st.err)
                /\ local' = st.local
           ELSE /\ Goto(c, "upsert", calls[c])
                /\ local' = st.local

\* The dao.InsertOrUpdate that ends StoreFile, the fetch of TouchFile and
\* the goroutine of UploadAll; time.Now() is read for LastAccess.
Upsert(c) ==
    /\ calls[c].pc = "upsert"
    /\ Rest
    /\ UNCHANGED <<local, remote>>
    /\ data' = IF dao # "nil"
               THEN InsertOrUpdate(data,
                        FileInfo(IF calls[c].op = "TouchFile" THEN calls[c].driveFile.Id
                                 ELSE calls[c].res.Id,
                                 now, calls[c].path, Len(calls[c].bytes)), now)
               ELSE data
    /\ Returns(c, "nil")

\* TouchFile: os.Stat.
TouchStat(c, env) ==
    /\ calls[c].op = "TouchFile" /\ calls[c].pc = "stat"
    /\ Rest
    /\ UNCHANGED <<local, remote, data>>
    /\ Goto(c, IF Stat(local, calls[c].path, env.stat) = "nil" THEN "touch" ELSE "list",
            calls[c])

\* TouchFile on a local file: dao.Touch, return nil.
TouchLocal(c) ==
    /\ calls[c].op = "TouchFile" /\ calls[c].pc = "touch"
    /\ Rest
    /\ UNCHANGED <<local, remote>>
    /\ data' = IF dao # "nil" THEN Touch(data, calls[c].path, now) ELSE data
    /\ Returns(c, "nil")

\* TouchFile: Files.List.
TouchList(c, env) ==
    /\ calls[c].op = "TouchFile" /\ calls[c].pc = "list"
    /\ Rest
    /\ UNCHANGED <<local, remote, data>>
    /\ IF ~env.list
       THEN Returns(c, "list")
       ELSE IF ListByName(remote, convertToGDrive(calls[c].path)) = {}
       THEN Returns(c, "file not available on google drive")
       ELSE \E f \in ListByName(remote, convertToGDrive(calls[c].path)) :
                Goto(c, "download", [calls[c] EXCEPT !.driveFile = f])

\* TouchFile: Files.Get(files.Files[0].Id).Download() and io.ReadAll: the
\* content the drive file of that id has by now.
TouchDownload(c, env) ==
    /\ calls[c].op = "TouchFile" /\ calls[c].pc = "download"
    /\ Rest
    /\ UNCHANGED <<local, remote, data>>
    /\ IF ~env.download \/ ~\E f \in remote : f.Id = calls[c].driveFile.Id
       THEN Returns(c, "download")
       ELSE \E f \in { g \in remote : g.Id = calls[c].driveFile.Id } :
                Goto(c, "write", [calls[c] EXCEPT !.bytes = f.Content])

\* The goroutine of UploadAll: os.Open and io.ReadAll.
TaskRead(c, env) ==
    /\ calls[c].op = "UploadTask" /\ calls[c].pc = "read"
    /\ Rest
    /\ UNCHANGED <<local, remote, data>>
    /\ IF ~env.open \/ ~local[calls[c].path].exists
       THEN Returns(c, "open")
       ELSE \E b \in ReadAll(local[calls[c].path].bytes, env.read) :
                Goto(c, "find2", [calls[c] EXCEPT !.bytes = b])

InitCalls ==
    /\ local = [p \in Paths |-> NoFile]
    /\ remote = {}
    /\ data = {}
    /\ dao = "Memory"
    /\ TotalMaxSize = 0
    /\ now = 0
    /\ ret = [op |-> "New", err |-> "nil"]
    /\ pc = <<>>
    /\ limiter = 0
    /\ wg = 0
    /\ upl = "idle"
    /\ start = StartInit
    /\ calls = [c \in Callers |-> Idle]

NextCalls ==
    \/ \E c \in Callers, p \in Paths, b \in FileBytes, replace \in BOOLEAN :
           CallStoreFile(c, p, b, replace)
    \/ \E c \in Callers, p \in Paths : CallTouchFile(c, p)
    \/ \E c \in Callers, p \in Paths : CallUploadTask(c, p)
    \/ \E c \in Callers : StoreStat(c, NoFault)
    \/ \E c \in Callers : StoreFind(c, NoFault)
    \/ \E c \in Callers : UploadFind(c, NoFault)
    \/ \E c \in Callers : UploadDo(c, NoFault)
    \/ \E c \in Callers : WriteLocal(c, NoFault)
    \/ \E c \in Callers : Upsert(c)
    \/ \E c \in Callers : TouchStat(c, NoFault)
    \/ \E c \in Callers : TouchLocal(c)
    \/ \E c \in Callers : TouchList(c, NoFault)
    \/ \E c \in Callers : TouchDownload(c, NoFault)
    \/ \E c \in Callers : TaskRead(c, NoFault)

SpecCalls == InitCalls /\ [][NextCalls]_vars

-----------------------------------------------------------------------------
(* A caller of StoreFile and TouchFile and the goroutine of Start, both  *)
(* statement by statement: a pass interleaves with a call on the path it *)
(* evicts.                                                               *)

\* The goroutine that runs Start.
StartGoroutine == 2

\* The goroutine that calls StoreFile and TouchFile.
Caller == 1

\* Paths stored before the race starts.
RacePaths == { <<"a">>, <<"d", "/", "a">> }

\* The frame of shouldRemove between its calls to the dao and to os.Remove.
SweepFrame(at, total, toRemove, totalToRemove, i) ==
    [op |-> "shouldRemove", pc |-> at, total |-> total, toRemove |-> toRemove,
     totalToRemove |-> totalToRemove, i |-> i]

\* shouldRemove returns result, and Start resets its timer.
SweepReturns(c, result, err) ==
    /\ calls' = [calls EXCEPT ![c] = Idle]
    /\ ret' = [op |-> "shouldRemove", result |-> result, err |-> err]
    /\ start' = Reset(start, result)

SweepRest == UNCHANGED <<remote, dao, TotalMaxSize, pc, limiter, wg, upl>>

\* case <-t.C: shouldRemove is entered and calls dao.TotalSize.
SweepTotal(c) ==
    /\ upl = "idle"
    /\ dao # "nil"
    /\ calls[c].op = "idle"
    /\ start.pc = "select"
    /\ now < MaxCalls
    /\ now' = now + 1
    /\ SweepRest
    /\ UNCHANGED <<local, data>>
    /\ IF TotalSize(data) <= TotalMaxSize
       THEN SweepReturns(c, FALSE, "nil")
       ELSE /\ calls' = [calls EXCEPT ![c] = SweepFrame("query", TotalSize(data), <<>>, 0, 1)]
            /\ UNCHANGED <<ret, start>>

\* dao.QueryOldest and the selection loop.
SweepQuery(c) ==
    /\ calls[c].op = "shouldRemove" /\ calls[c].pc = "query"
    /\ SweepRest
    /\ UNCHANGED <<local, data, now, ret, start>>
    /\ \E list \in QueryOldest(data, BatchSize) :
           LET sel == SelectLoop(list, 1, 0, calls[c].total - TotalMaxSize)
           IN  calls' = [calls EXCEPT ![c] =
                   SweepFrame("delete", calls[c].total, SubSeq(list, 1, sel.n),
                              IF list = <<>> THEN 0 ELSE sel.totalToRemove, 1)]

\* A pass that goes on to the next candidate without removing the file.
SweepRemoveKeeps(c) ==
    /\ calls[c].op = "shouldRemove" /\ calls[c].pc = "remove"
    /\ SweepRest
    /\ UNCHANGED <<local, data, now, ret, start>>
    /\ calls' = [calls EXCEPT ![c] = [calls[c] EXCEPT !.pc = "delete", !.i = @ + 1]]

\* The removal loop at dao.Delete of candidate i, or past its last
\* candidate at 'if diff > totalToRemove'.
SweepDelete(c) ==
    /\ calls[c].op = "shouldRemove" /\ calls[c].pc = "delete"
    /\ SweepRest
    /\ UNCHANGED <<local, now>>
    /\ IF calls[c].i > Len(calls[c].toRemove)
       THEN /\ SweepReturns(c, calls[c].total - TotalMaxSize > calls[c].totalToRemove, "nil")
            /\ UNCHANGED data
       ELSE LET del == Delete(data, calls[c].toRemove[calls[c].i].Filepath)
            IN  IF del.err # "nil"
                THEN /\ SweepReturns(c, FALSE, "delete")
                     /\ UNCHANGED data
                ELSE /\ data' = del.data
                     /\ calls' = [calls EXCEPT ![c] = [calls[c] EXCEPT !.pc = "remove"]]
                     /\ UNCHANGED <<ret, start>>

\* The removal loop at os.Remove of candidate i, which fails when the file
\* is not there.
SweepRemove(c) ==
    /\ calls[c].op = "shouldRemove" /\ calls[c].pc = "remove"
    /\ SweepRest
    /\ UNCHANGED <<data, now>>
    /\ LET path == calls[c].toRemove[calls[c].i].Filepath
       IN  IF ~local[path].exists
           THEN /\ SweepReturns(c, FALSE, "remove")
                /\ UNCHANGED local
           ELSE /\ local' = [local EXCEPT ![path] = NoFile]
                /\ calls' = [calls EXCEPT ![c] =
                                [calls[c] EXCEPT !.pc = "delete", !.i = @ + 1]]
                /\ UNCHANGED <<ret, start>>

\* The state after successful StoreFile calls on some of RacePaths, in
\* either order.
InitRace ==
    \E stored \in SUBSET RacePaths, bytes \in [RacePaths -> FileBytes],
       at \in [RacePaths -> {-2, -1}] :
        /\ \A p, q \in RacePaths : at[p] = at[q] => p = q
        /\ local = [p \in Paths |-> IF p \in stored THEN File(bytes[p]) ELSE NoFile]
        /\ remote = { [Id |-> NewId({}, convertToGDrive(p)), Name |-> convertToGDrive(p),
                        Content |-> bytes[p]] : p \in stored }
        /\ data = { FileInfo(NewId({}, convertToGDrive(p)), at[p], p, Len(bytes[p])) :
                    p \in stored }
        /\ dao = "Memory"
        /\ TotalMaxSize \in SweepBudgets
        /\ now = 0
        /\ ret = [op |-> "New", err |-> "nil"]
        /\ pc = <<>>
        /\ limiter = 0
        /\ wg = 0
        /\ upl = "idle"
        /\ start = StartInit
        /\ calls = [c \in Callers |-> Idle]

NextRace ==
    \/ \E p \in Paths, b \in FileBytes, replace \in BOOLEAN :
           CallStoreFile(Caller, p, b, replace)
    \/ \E p \in Paths : CallTouchFile(Caller, p)
    \/ StoreStat(Caller, NoFault)
    \/ StoreFind(Caller, NoFault)
    \/ UploadFind(Caller, NoFault)
    \/ UploadDo(Caller, NoFault)
    \/ WriteLocal(Caller, NoFault)
    \/ Upsert(Caller)
    \/ TouchStat(Caller, NoFault)
    \/ TouchLocal(Caller)
    \/ TouchList(Caller, NoFault)
    \/ TouchDownload(Caller, NoFault)
    \/ SweepTotal(StartGoroutine)
    \/ SweepQuery(StartGoroutine)
    \/ SweepDelete(StartGoroutine)
    \/ SweepRemove(StartGoroutine)

SpecRace == InitRace /\ [][NextRace]_vars

-----------------------------------------------------------------------------
(* Memory on its own: m.data as the slice it is, and its five methods,   *)
(* each one step because each holds m.mut from its first statement to    *)
(* its return.  Callers, UploadAll goroutines and Start reach m.data     *)
(* through these methods only, in any order and with any arguments.      *)

\* slices.IndexFunc(m.data, Filepath == path): the first index, from 0, or -1.
IndexFunc(s, path) ==
    IF \E i \in DOMAIN s : s[i].Filepath = path
    THEN (CHOOSE i \in DOMAIN s :
              /\ s[i].Filepath = path
              /\ \A j \in DOMAIN s : s[j].Filepath = path => i <= j) - 1
    ELSE -1

\* A Memory.InsertOrUpdate that appends without looking for the path.
MemoryInsertOrUpdateAppends(s, fileInfo, t) == Append(s, fileInfo)

MemoryInsertOrUpdate(s, fileInfo, t) ==
    LET idx == IndexFunc(s, fileInfo.Filepath)
    IN  IF idx >= 0
        THEN [s EXCEPT ![idx + 1] = [fileInfo EXCEPT !.LastAccess = t]]
        ELSE Append(s, fileInfo)

MemoryTouch(s, path, date) ==
    LET idx == IndexFunc(s, path)
    IN  IF idx >= 0 THEN [s EXCEPT ![idx + 1].LastAccess = date] ELSE s

\* Memory.Delete: [err, data]; slices.Remove takes the element at idx out.
MemoryDelete(s, path) ==
    LET idx == IndexFunc(s, path)
    IN  IF idx < 0
        THEN [err |-> "file not found", data |-> s]
        ELSE [err |-> "nil",
              data |-> SubSeq(s, 1, idx) \o SubSeq(s, idx + 2, Len(s))]

RECURSIVE MemoryTotalSize(_)
MemoryTotalSize(s) ==
    IF s = <<>> THEN 0 ELSE s[1].Size + MemoryTotalSize(Tail(s))

\* Memory.QueryOldest: m.data sorted in place, in any of the orders the
\* sort may leave, and the copy of its first limit elements: [data, retVal].
MemoryQueryOldest(s, limit) ==
    { [data   |-> [i \in DOMAIN s |-> s[perm[i]]],
       retVal |-> [i \in 1..Min(limit, Len(s)) |-> s[perm[i]]]] :
      perm \in { q \in Permutations(DOMAIN s) :
                    \A i, j \in DOMAIN s :
                        i < j => s[q[i]].LastAccess <= s[q[j]].LastAccess } }

\* Limits given to QueryOldest.
Limits == {1, BatchSize}

DaoStep(op, err, result) ==
    /\ dao = "Memory"
    /\ now < MaxTime
    /\ now' = now + 1
    /\ ret' = [op |-> op, err |-> err, result |-> result]
    /\ UNCHANGED <<local, remote, dao, TotalMaxSize, pc, limiter, wg, upl, start, calls>>

\* The caller read LastAccess from the clock before or after the tick.
DaoInsertOrUpdate(path, size, t) ==
    /\ data' = MemoryInsertOrUpdate(data, FileInfo(<<path, 1>>, t, path, size), now + 1)
    /\ DaoStep("InsertOrUpdate", "nil", 0)

DaoTouch(path, date) ==
    /\ data' = MemoryTouch(data, path, date)
    /\ DaoStep("Touch", "nil", 0)

DaoDeleteSlice(path) ==
    /\ data' = MemoryDelete(data, path).data
    /\ DaoStep("Delete", MemoryDelete(data, path).err, 0)

DaoTotalSize ==
    /\ UNCHANGED data
    /\ DaoStep("TotalSize", "nil", MemoryTotalSize(data))

DaoQueryOldest(limit) ==
    \E q \in MemoryQueryOldest(data, limit) :
        /\ data' = q.data
        /\ DaoStep("QueryOldest", "nil", q.retVal)

InitDao ==
    /\ local = [p \in Paths |-> NoFile]
    /\ remote = {}
    /\ data = <<>>
    /\ dao = "Memory"
    /\ TotalMaxSize = 0
    /\ now = 0
    /\ ret = [op |-> "NewMemoryDao", err |-> "nil", result |-> 0]
    /\ pc = <<>>
    /\ limiter = 0
    /\ wg = 0
    /\ upl = "idle"
    /\ start = StartInit
    /\ calls = <<>>

NextDao ==
    \/ \E path \in Paths, size \in {1, 2}, t \in {now, now + 1} :
           DaoInsertOrUpdate(path, size, t)
    \/ \E path \in Paths, date \in {now, now + 1} : DaoTouch(path, date)
    \/ \E path \in Paths : DaoDeleteSlice(path)
    \/ DaoTotalSize
    \/ \E limit \in Limits : DaoQueryOldest(limit)

SpecDao == InitDao /\ [][NextDao]_vars

-----------------------------------------------------------------------------
(* Eviction: the budget after a pass, and which records a pass removes.  *)

\* C1 as stated: after every pass that ends without a delete or remove
\* error, the total size of the tracked files is at most TotalMaxSize, or
\* the store held fewer than 10 records when the pass started.
C1_BudgetOrFewerThanBatch ==
    (ret.op = "shouldRemove" /\ ret.err = "nil") =>
        \/ TotalSize(data) <= TotalMaxSize
        \/ ret.n < BatchSize

\* C1, amended: after every pass that ends without a delete or remove
\* error, the total size of the tracked files is at most TotalMaxSize, or
\* the pass removed its whole batch, the min(10, n) oldest of the n records
\* the store held when it started; so a store of 10 or more records can
\* stay over budget after a pass.
C1_BudgetOrBatchExhausted ==
    (ret.op = "shouldRemove" /\ ret.err = "nil") =>
        \/ TotalSize(data) <= TotalMaxSize
        \/ /\ ret.deleted = Min(BatchSize, ret.n)
           /\ Cardinality(data) = ret.n - ret.deleted

\* A pass over 10 or more records that ended over a budget of 0 or more.
C1_Witness ==
    /\ ret.op = "shouldRemove"
    /\ ret.err = "nil"
    /\ ret.n >= BatchSize
    /\ TotalMaxSize >= 0
    /\ TotalSize(data) > TotalMaxSize

\* C2: after a successful StoreFile(p, b, replace) with a metadata store
\* configured, the local file at p holds b, the drive file of p's mapped
\* name holds b, and the record of p has Size len(b).  No call takes a drive
\* file away, and StoreFile without Replace fails with ErrFileExist whenever
\* a drive file of the mapped name exists: so once StoreFile succeeded for a
\* p that existed neither locally nor remotely, every later StoreFile(p, b2,
\* Replace = false) fails with ErrFileExist.
C2_StoreGuarantee ==
    [][ /\ (ret'.op = "StoreFile" /\ ret'.err = "nil" /\ dao # "nil") =>
              LET p    == ret'.path
                  objs == { f \in remote' : f.Name = convertToGDrive(p) }
                  recs == { r \in data' : r.Filepath = p }
              IN  /\ local'[p] = File(ret'.bytes)
                  /\ objs # {}
                  /\ \A f \in objs : f.Content = ret'.bytes
                  /\ Cardinality(recs) = 1
                  /\ \A r \in recs : r.Size = Len(ret'.bytes)
        /\ \A f \in remote : \E g \in remote' : g.Id = f.Id /\ g.Name = f.Name
        /\ (ret.op = "StoreFile" /\ ret.err = "nil" /\ ret.fresh) =>
              { f \in remote : f.Name = convertToGDrive(ret.path) } # {}
        /\ (/\ ret'.op = "StoreFile"
            /\ ~ret'.replace
            /\ { f \in remote : f.Name = convertToGDrive(ret'.path) } # {}) =>
              ret'.err = "ErrFileExist"
      ]_vars

\* A successful StoreFile with Replace on a path that already had a local
\* file or a drive file, and has a record now.
C2_Witness ==
    /\ ret.op = "StoreFile"
    /\ ret.err = "nil"
    /\ ret.replace
    /\ ~ret.fresh
    /\ local[ret.path] = File(ret.bytes)
    /\ HasRecord(data, ret.path)
    /\ now >= 2

\* C3: StoreFile with Replace = false on a path whose mapped drive file
\* exists, the local file present or not, returns ErrFileExist and changes
\* no drive file, no local file and no record.
C3_RemoteExistRejects ==
    [][ (/\ ret'.op = "StoreFile"
         /\ ~ret'.replace
         /\ { f \in remote : f.Name = convertToGDrive(ret'.path) } # {}) =>
            /\ ret'.err = "ErrFileExist"
            /\ UNCHANGED <<local, remote, data>>
      ]_vars

\* A StoreFile rejected for its drive file alone: no local file at the path.
C3_Witness ==
    /\ ret.op = "StoreFile"
    /\ ~ret.replace
    /\ ret.err = "ErrFileExist"
    /\ ~local[ret.path].exists
    /\ { f \in remote : f.Name = convertToGDrive(ret.path) } # {}

\* C4 as stated: StoreFile with Replace = false on a path whose local file
\* exists returns ErrFileExist, whether or not a drive file exists for it.
C4_LocalExistRejects ==
    [][ (ret'.op = "StoreFile" /\ ~ret'.replace /\ local[ret'.path].exists) =>
            ret'.err = "ErrFileExist"
      ]_vars

\* C5: TouchFile(p) on a path without a local file succeeds exactly when a
\* drive file of p's mapped name exists.  On success the local file holds
\* the content of such a drive file and the one record of p has its length
\* as Size and a LastAccess no earlier than the call; without a drive file
\* the call fails and leaves local files and records as they were.
C5_TouchFetches ==
    [][ (ret'.op = "TouchFile" /\ ~local[ret'.path].exists /\ dao # "nil") =>
            LET p    == ret'.path
                objs == { f \in remote : f.Name = convertToGDrive(p) }
                recs == { r \in data' : r.Filepath = p }
            IN  /\ (ret'.err = "nil") <=> (objs # {})
                /\ ret'.net
                /\ remote' = remote
                /\ (ret'.err = "nil") =>
                       /\ \E f \in objs : /\ local'[p] = File(f.Content)
                                          /\ \A r \in recs : /\ r.Size = Len(f.Content)
                                                             /\ r.FileID = f.Id
                       /\ Cardinality(recs) = 1
                       /\ \A r \in recs : r.LastAccess >= now'
                       /\ \A q \in DOMAIN local \ {p} : local'[q] = local[q]
                /\ (objs = {}) => UNCHANGED <<local, data>>
      ]_vars

\* A TouchFile that fetched a file of two bytes from the drive.
C5_Witness ==
    /\ ret.op = "TouchFile"
    /\ ret.err = "nil"
    /\ ret.net
    /\ Len(local[ret.path].bytes) = 2
    /\ HasRecord(data, ret.path)

\* C6 as stated: TouchFile(p) on a path whose local file exists returns
\* success without a call to the drive and without a change of a local or a
\* drive file, and then the file is there and a record of p exists whose
\* LastAccess is no earlier than the call.
C6_TouchLocalRecords ==
    [][ (ret'.op = "TouchFile" /\ local[ret'.path].exists /\ dao # "nil") =>
            /\ ret'.err = "nil"
            /\ ~ret'.net
            /\ UNCHANGED <<local, remote>>
            /\ HasRecord(data', ret'.path)
            /\ \A r \in data' : r.Filepath = ret'.path => r.LastAccess >= now'
      ]_vars

\* C11: StoreFile(p, b, Replace) followed by StoreFile(p, b2, Replace)
\* succeeds and leaves b2 in the local file and in the drive file that was
\* there, creating no other: the drive files keep their ids, one carries
\* p's mapped name, and the one record of p keeps its FileID, the id of that
\* drive file, with Size len(b2).
C11_ReplaceOverwrites ==
    [][ (/\ ret.op = "StoreFile" /\ ret.err = "nil" /\ ret.replace
         /\ ret'.op = "StoreFile" /\ ret'.path = ret.path /\ ret'.replace
         /\ dao # "nil") =>
            LET p     == ret'.path
                objs  == { f \in remote : f.Name = convertToGDrive(p) }
                objs2 == { f \in remote' : f.Name = convertToGDrive(p) }
                recs  == { r \in data : r.Filepath = p }
                recs2 == { r \in data' : r.Filepath = p }
            IN  /\ ret'.err = "nil"
                /\ local'[p] = File(ret'.bytes)
                /\ Cardinality(objs2) = 1
                /\ { f.Id : f \in remote' } = { f.Id : f \in remote }
                /\ { f.Id : f \in objs2 } = { f.Id : f \in objs }
                /\ \A f \in objs2 : f.Content = ret'.bytes
                /\ Cardinality(recs2) = 1
                /\ \A r \in recs2 : /\ r.Size = Len(ret'.bytes)
                                    /\ r.FileID \in { f.Id : f \in objs2 }
                                    /\ \A q \in recs : q.FileID = r.FileID
                /\ Cardinality(recs) = 1
      ]_vars

\* A second call has replaced a file of one byte by one of two bytes.
C11_Witness ==
    /\ ret.op = "StoreFile"
    /\ ret.err = "nil"
    /\ ret.replace
    /\ ~ret.fresh
    /\ now = 2
    /\ Cardinality(remote) = 1
    /\ Cardinality(data) = 1
    /\ \A r \in data : r.Filepath = ret.path /\ r.Size = 2 /\ r.LastAccess = 2
    /\ local[ret.path] = File(<<2, 2>>)

\* C12: whatever the order in which InsertOrUpdate, Touch, Delete,
\* TotalSize and QueryOldest are called, and with whatever arguments, m.data
\* never holds two records of one path, and TotalSize returns the sum of
\* the sizes of the records m.data holds.
C12_OneRecordPerPath ==
    /\ \A i, j \in DOMAIN data : data[i].Filepath = data[j].Filepath => i = j
    /\ (ret.op = "TotalSize") =>
           ret.result = TotalSize({ [Index |-> i, Size |-> data[i].Size] : i \in DOMAIN data })

\* TotalSize called on three records, one of them of two bytes and updated
\* since it was inserted.
C12_Witness ==
    /\ ret.op = "TotalSize"
    /\ Len(data) = 3
    /\ ret.result > 3
    /\ \E i \in DOMAIN data : data[i].Size = 2 /\ data[i].LastAccess > i

\* C13: in every state, also while calls are in flight, each record of the
\* metadata store has a drive file of its id under the name its path maps
\* to; a step that writes a local file is taken by a call whose own drive
\* file (uploaded by StoreFile, listed by TouchFile) is on Drive; and a step
\* that inserts or changes a record finds the drive file on Drive and, in
\* StoreFile and TouchFile, the local file written.
C13_RemoteThenLocalThenRecord ==
    /\ [](\A r \in data :
              \E f \in remote : f.Id = r.FileID /\ f.Name = convertToGDrive(r.Filepath))
    /\ [][/\ \A p \in Paths : local'[p] # local[p] =>
                 \E c \in Callers :
                     /\ calls[c].path = p /\ calls[c].pc = "write"
                     /\ \E f \in remote :
                            /\ f.Name = convertToGDrive(p)
                            /\ f.Id = IF calls[c].op = "TouchFile"
                                      THEN calls[c].driveFile.Id ELSE calls[c].res.Id
           /\ \A r \in data' \ data :
                 /\ \E f \in remote : f.Id = r.FileID /\ f.Name = convertToGDrive(r.Filepath)
                 /\ ret'.op \in {"StoreFile", "TouchFile"} => local[r.Filepath].exists]_vars

\* A TouchFile that fetched its file has returned with the record upserted
\* while another call stands between its upload and its local write.
C13_Witness ==
    /\ ret.op = "TouchFile" /\ ret.err = "nil"
    /\ \E r \in data : r.Filepath = ret.path
    /\ \E c \in Callers : calls[c].op = "StoreFile" /\ calls[c].pc = "write"

\* C16: in every state, also while StoreFile calls and UploadAll goroutines
\* interleave, Drive holds at most one file of any name.
C16_OneObjectPerName ==
    \A f, g \in remote : f.Name = g.Name => f.Id = g.Id

C19_AbortOnFirstFailure ==
    [][ret'.op = "shouldRemove" =>
           /\ \A p \in DOMAIN local :
                  local'[p] # local[p] => ~\E r \in data' : r.Filepath = p
           /\ ret'.err # "nil" =>
                  LET list   == ret'.list
                      failed == IF ret'.err = "remove" THEN ret'.deleted
                                ELSE ret'.deleted + 1
                  IN  /\ failed \in 1..ret'.selected
                      /\ \A k \in 1..(failed - 1) :
                             /\ ~\E r \in data' : r.Filepath = list[k].Filepath
                             /\ local[list[k].Filepath].exists
                             /\ ~local'[list[k].Filepath].exists
                      /\ ~\E r \in data' : r.Filepath = list[failed].Filepath
                      /\ local'[list[failed].Filepath] = local[list[failed].Filepath]
                      /\ local'[list[failed].Filepath].exists
                      /\ \A k \in (failed + 1)..Len(list) :
                             /\ list[k] \in data'
                             /\ local'[list[k].Filepath] = local[list[k].Filepath]
                      /\ data' \subseteq data
                      /\ remote' = remote
                      /\ ~ret'.result
                      /\ start'.pc = "select"
                      /\ start'.interval = "minute"]_vars

\* A pass has stopped at the os.Remove of its third candidate or a later
\* one, with a candidate after it left alone.
C19_Witness ==
    /\ ret.op = "shouldRemove"
    /\ ret.err = "remove"
    /\ ret.deleted >= 3
    /\ ret.selected > ret.deleted
    /\ start.pc = "select"

\* C18 as stated: after a pass over a store above TotalMaxSize in which
\* nothing failed, the timer is set to a second exactly when the sizes of
\* the records selected add up to no more than the excess, the case of
\* adding up to the excess exactly included.
C18_DrainingIffNotExceeding ==
    (ret.op = "shouldRemove" /\ ret.err = "nil" /\ ret.total > TotalMaxSize) =>
        (start.interval = "second" <=>
             TotalSize({ ret.list[k] : k \in 1..ret.selected }) <= ret.total - TotalMaxSize)

\* C18: the timer of Start is set to a minute or to a second, to a minute
\* before the first pass, and after a pass to a second exactly when the
\* store was above TotalMaxSize, no dao.Delete and no os.Remove failed, and
\* the sizes of the records selected add up to strictly less than the excess.
C18_DrainingIffStrictlyLess ==
    /\ start.interval \in {"minute", "second"}
    /\ (ret.op = "New") => start.interval = "minute"
    /\ (ret.op = "shouldRemove") =>
           (start.interval = "second" <=>
                /\ ret.err = "nil"
                /\ ret.total > TotalMaxSize
                /\ TotalSize({ ret.list[k] : k \in 1..ret.selected })
                       < ret.total - TotalMaxSize)

\* A pass has used up its batch short of the excess and set the timer to a second.
C18_Witness ==
    /\ ret.op = "shouldRemove"
    /\ start.interval = "second"
    /\ ret.selected = Len(ret.list)
    /\ ret.selected > 0

\* C20: a pass that starts with the total size of the metadata store at or
\* under TotalMaxSize deletes no record, removes no local file, touches no
\* drive file, leaves the total as it was, returns false and sets the timer
\* to a minute; so does a pass that follows a pass which brought the total
\* to or under TotalMaxSize.
C20_NoOpUnderBudget ==
    [][(ret'.op = "shouldRemove" /\ TotalSize(data) <= TotalMaxSize) =>
           /\ data' = data
           /\ local' = local
           /\ remote' = remote
           /\ TotalSize(data') = TotalSize(data)
           /\ ret'.total = TotalSize(data)
           /\ ~ret'.result
           /\ start'.interval = "minute"]_vars

\* A pass has found the store at or under TotalMaxSize after an earlier pass
\* had evicted files to bring it there.
C20_Witness ==
    /\ ret.op = "shouldRemove"
    /\ ret.total <= TotalMaxSize
    /\ data # {}
    /\ \E p \in DOMAIN local : ~local[p].exists
    /\ start.interval = "minute"

C17_NoRollback ==
    [][ret'.op = "StoreFile" =>
           /\ ret'.err = "write" =>
                  /\ \E f \in remote' :
                         /\ f.Name = convertToGDrive(ret'.path)
                         /\ f.Content = ret'.bytes
                  /\ \A f \in remote : \E g \in remote' : g.Id = f.Id
                  /\ data' = data
           /\ ret'.err = "upload" =>
                  /\ local' = local
                  /\ data' = data
           /\ ret'.err = "nil" => local'[ret'.path] = File(ret'.bytes)]_vars

\* A StoreFile of a path that had no drive file has returned the error of
\* its local write: the drive file is there with the bytes given, the local
\* file is not the file given, and the path has no record.
C17_Witness ==
    /\ ret.op = "StoreFile"
    /\ ret.err = "write"
    /\ ret.fresh
    /\ \E f \in remote : f.Name = convertToGDrive(ret.path) /\ f.Content = ret.bytes
    /\ local[ret.path] # File(ret.bytes)
    /\ ~\E r \in data : r.Filepath = ret.path

\* C21: during UploadAll over a tree of more files than the limiter has
\* slots, and after it, the slots taken are as many as the goroutines that
\* are past their send on limiter and have not ended, at most ten, and wg
\* counts the goroutines that have not ended; a goroutine takes a slot only
\* when one is free and touches Drive and the metadata store only after its
\* send; it gives the slot back in the step in which it ends, whether it
\* ends at the end of its body, at a failed os.Open or in a panic; and once
\* ended it does nothing.
C21_BoundedConcurrency ==
    /\ [](upl # "idle" =>
              /\ limiter = Cardinality({ i \in DOMAIN pc : pc[i] = "running" })
              /\ limiter <= LimiterCap
              /\ wg = Cardinality({ i \in DOMAIN pc : pc[i] \in {"blocked", "running"} }))
    /\ [][/\ \A i \in DOMAIN pc :
                 /\ pc[i] = "blocked" => pc'[i] \in {"blocked", "running"}
                 /\ (pc[i] = "blocked" /\ pc'[i] = "running") =>
                        /\ limiter < LimiterCap
                        /\ limiter' = limiter + 1
                        /\ remote' = remote /\ data' = data
                 /\ (pc[i] = "running" /\ pc'[i] # "running") => limiter' = limiter - 1
                 /\ pc[i] \notin {"blocked", "running"} => pc'[i] = pc[i]
          /\ (remote' # remote \/ data' # data) =>
                 \E j \in DOMAIN pc : pc[j] = "running" /\ pc'[j] # "running"]_vars

\* Ten goroutines hold the ten slots of the limiter after the goroutine that
\* failed at os.Open has given its slot back.
C21_Witness ==
    /\ upl = "running"
    /\ limiter = LimiterCap
    /\ Cardinality({ i \in DOMAIN pc : pc[i] = "running" }) = LimiterCap
    /\ \E i \in DOMAIN pc : pc[i] = "openfail"

\* C22: when the caller and the pass of Start that ran alongside it have
\* both returned, every local file has its record, with the size of the
\* file: a path has file and record, neither, or a record without a file,
\* and the total size tracked is at least the bytes on the local disk.
C22_NoFileWithoutRecord ==
    (\A c \in DOMAIN calls : calls[c].op = "idle") =>
        /\ \A p \in DOMAIN local :
               local[p].exists =>
                   \E r \in data : r.Filepath = p /\ r.Size = Len(local[p].bytes)
        /\ TotalSize(data) >=
               TotalSize({ [Filepath |-> p, Size |-> Len(local[p].bytes)] :
                           p \in { q \in DOMAIN local : local[q].exists } })

\* A StoreFile and a pass that evicted its path have both returned, and the
\* path is left with a record and no local file.
C22_Witness ==
    /\ DOMAIN calls = Callers
    /\ \A c \in DOMAIN calls : calls[c].op = "idle"
    /\ ret.op = "StoreFile" /\ ret.err = "nil"
    /\ \E r \in data : r.Filepath = ret.path
    /\ ~local[ret.path].exists

\* C23: with TotalMaxSize at least 0, nothing but Start writing to the
\* metadata store and the timer of Start firing again and again, every pass
\* that finds the total size over TotalMaxSize deletes at least one record,
\* also when it stops at a local file that is missing, and the total size
\* is in the end at or under TotalMaxSize and stays there.
C23_EvictionProgress ==
    /\ [][(ret'.op = "shouldRemove" /\ TotalMaxSize >= 0 /\ TotalSize(data) > TotalMaxSize) =>
              /\ Cardinality(data') < Cardinality(data)
              /\ data' \subseteq data]_vars
    /\ [][TotalSize(data) <= TotalMaxSize => TotalSize(data') <= TotalMaxSize]_vars
    /\ <>[](TotalMaxSize >= 0 => TotalSize(data) <= TotalMaxSize)

\* Passes over a store above TotalMaxSize have brought it to or under
\* TotalMaxSize, the last of them stopping at a local file that was missing
\* with records still left.
C23_Witness ==
    /\ ret.op = "shouldRemove"
    /\ ret.err = "remove"
    /\ now >= 2
    /\ TotalMaxSize >= 0
    /\ ret.total > TotalMaxSize
    /\ TotalSize(data) <= TotalMaxSize
    /\ data # {}
    /\ \A p \in DOMAIN local : ~local[p].exists

\* C7: a pass that finds the store over budget takes its candidates, the
\* min(10, n) oldest records, in ascending LastAccess order, and removes the
\* shortest prefix of them whose size strictly exceeds total - TotalMaxSize
\* (all of them if no prefix does); no removed record has a LastAccess newer
\* than a record that is kept.
C7_StrictLRU ==
    (ret.op = "shouldRemove" /\ ret.total > TotalMaxSize) =>
        LET list     == ret.list
            diff     == ret.total - TotalMaxSize
            cands    == { list[i] : i \in 1..Len(list) }
            Size(j)  == TotalSize({ list[i] : i \in 1..j })
            crossing == { j \in 1..Len(list) : Size(j) > diff }
            k        == IF crossing = {} THEN Len(list)
                        ELSE CHOOSE j \in crossing : \A m \in crossing : j <= m
            removed  == { list[i] : i \in 1..k }
        IN  /\ Len(list) = Min(BatchSize, ret.n)
            /\ Cardinality(cands) = Len(list)
            /\ \A i, j \in 1..Len(list) :
                   i < j => list[i].LastAccess <= list[j].LastAccess
            /\ \A x \in data \ cands : \A c \in cands : c.LastAccess <= x.LastAccess
            /\ ret.deleted = k
            /\ data \cap removed = {}
            /\ cands \ removed \subseteq data
            /\ Cardinality(data) = ret.n - k
            /\ \A r \in removed : \A x \in data : r.LastAccess <= x.LastAccess
            /\ \A r \in removed : ~local[r.Filepath].exists

\* A pass over more than 10 records that removed two or more candidates and
\* kept one.
C7_Witness ==
    /\ ret.op = "shouldRemove"
    /\ ret.n > BatchSize
    /\ ret.deleted >= 2
    /\ ret.deleted < Len(ret.list)

\* C8: an eviction pass leaves every drive file and its content as it
\* was: it only takes records away, and the local files of records it took
\* away.  The drive file of every record it removes exists, no call takes a
\* drive file away, and TouchFile on a path without a local file but with a
\* drive file succeeds and puts the local file and the record back: so
\* TouchFile restores every evicted path.
C8_EvictionKeepsRemote ==
    [][ /\ (ret'.op = "shouldRemove") =>
              /\ remote' = remote
              /\ data' \subseteq data
              /\ \A p \in DOMAIN local :
                     \/ local'[p] = local[p]
                     \/ /\ local'[p] = NoFile
                        /\ HasRecord(data, p)
                        /\ ~HasRecord(data', p)
              /\ \A r \in data \ data' :
                     { f \in remote' : f.Name = convertToGDrive(r.Filepath) } # {}
        /\ \A f \in remote : \E g \in remote' : g.Id = f.Id /\ g.Name = f.Name
        /\ (/\ ret'.op = "TouchFile"
            /\ ~local[ret'.path].exists
            /\ { f \in remote : f.Name = convertToGDrive(ret'.path) } # {}) =>
              /\ ret'.err = "nil"
              /\ local'[ret'.path].exists
              /\ HasRecord(data', ret'.path)
      ]_vars

\* A pass that evicted a path whose drive file is still there.
C8_Witness ==
    /\ ret.op = "shouldRemove"
    /\ ret.deleted > 0
    /\ \E p \in DOMAIN local :
           /\ ~local[p].exists
           /\ ~HasRecord(data, p)
           /\ { f \in remote : f.Name = convertToGDrive(p) } # {}

-----------------------------------------------------------------------------
(* UploadAll.                                                            *)

\* C9: when no read and no upload fails, after UploadAll has returned from
\* a tree of more files than the limiter has slots, every file has a drive
\* file of its mapped name, the metadata store holds exactly one record per
\* file and no other, and TotalSize is the sum of the sizes of the files,
\* whatever the order the goroutines ran in; until then the records are
\* those of the files whose goroutines are done.
C9_UploadComplete ==
    /\ { r.Filepath : r \in data } =
           { UploadPath(i, NFiles) : i \in { j \in DOMAIN pc : pc[j] = "done" } }
    /\ (upl = "returned") =>
           /\ \A p \in DOMAIN local :
                  /\ { f \in remote : f.Name = convertToGDrive(p) } # {}
                  /\ Cardinality({ r \in data : r.Filepath = p }) = 1
           /\ Cardinality(data) = NFiles
           /\ \A r \in data : r.Size = Len(local[r.Filepath].bytes)
           /\ TotalSize(data) =
                  TotalSize({ [Filepath |-> p, Size |-> Len(local[p].bytes)] :
                              p \in DOMAIN local })
           /\ \A i \in DOMAIN pc : pc[i] = "done"

\* UploadAll has returned from a tree of more files than the limiter has slots.
C9_Witness ==
    /\ upl = "returned"
    /\ NFiles > LimiterCap
    /\ wg = 0
    /\ limiter = 0

\* C10 as stated: when the read or the upload of a file fails during
\* UploadAll, with a metadata store configured, the failure is only logged:
\* no goroutine brings the process down, no record is upserted for the file
\* that failed, and when UploadAll has returned every other file is recorded.
C10_FailureIsolated ==
    /\ upl # "panic"
    /\ \A i \in DOMAIN pc :
           pc[i] \in {"openfail", "readfail", "uploadfail"} =>
               ~HasRecord(data, UploadPath(i, NFiles))
    /\ (upl = "returned") =>
           \A i \in DOMAIN pc : pc[i] = "done" => HasRecord(data, UploadPath(i, NFiles))

=============================================================================
